---- MODULE Spec2Model ----
(***************************************************************************)
(* Job-analyser: the text-to-structured-data core of JobProcessor          *)
(* (src/src/processor/job_processor.py) and the normalization of raw       *)
(* records by BaseScraper (src/src/scraper/base_scraper.py).               *)
(*                                                                         *)
(* Texts are strings; every Python string operation the code uses          *)
(* (lower, strip, replace, in, re.findall, float, split) is computed       *)
(* character by character.  Money is kept in hundredths (centi-units):     *)
(* the salary texts of the model carry at most two fractional digits, so   *)
(* every product with an integer multiplier is exact in hundredths, and    *)
(* x * 0.9, x * 1.1 and (a + b) / 2 are exact in thousandths before        *)
(* round(_, 2) is applied.  Values above the salary band are saturated at  *)
(* Huge: all multipliers are >= 1, so such a value is filtered out by the  *)
(* band test whatever its exact size.                                      *)
(***************************************************************************)
EXTENDS Integers, Sequences, FiniteSets, TLC

VARIABLES
    pc,            \* position of the driver: "input" | "done"
    typed,         \* number of fragments the driver has typed into the text
    salary_text,   \* argument of analyze_salary_range
    estimate,      \* outcome of analyze_salary_range
    description,   \* argument of detect_work_type
    work_type,     \* outcome of detect_work_type
    jobs,          \* the listing collection handed to the aggregate queries
    query,         \* the aggregate query that ran (name and argument)
    result,        \* outcome of the aggregate query
    raw_job        \* the raw record a scraper hands to _normalize_job_data

vars == <<pc, typed, salary_text, estimate, description, work_type, jobs, query,
          result, raw_job>>

(***************************************************************************)
(* Python values and call outcomes                                         *)
(***************************************************************************)
Str(s) == [type |-> "str", s |-> s, n |-> 0]
PyInt(n) == [type |-> "int", s |-> "", n |-> n]
None == [type |-> "NoneType", s |-> "", n |-> 0]
\* a key that the dict does not hold
Missing == [type |-> "missing", s |-> "", n |-> 0]
\* the empty list []
EmptyList == [type |-> "list", s |-> "", n |-> 0]

\* bool(v)
Truthy(v) ==
    CASE v.type = "str" -> v.s # ""
      [] v.type = "int" -> v.n # 0
      [] OTHER -> FALSE

Return(x) == [kind |-> "return", value |-> x]
Raise(e) == [kind |-> "raise", exc |-> e]

(***************************************************************************)
(* Python string operations                                                *)
(***************************************************************************)
Digits == {"0", "1", "2", "3", "4", "5", "6", "7", "8", "9"}

DigitVal(c) ==
    CASE c = "0" -> 0 [] c = "1" -> 1 [] c = "2" -> 2 [] c = "3" -> 3
      [] c = "4" -> 4 [] c = "5" -> 5 [] c = "6" -> 6 [] c = "7" -> 7
      [] c = "8" -> 8 [] c = "9" -> 9

CharAt(s, i) == SubSeq(s, i, i)

LowerChar(c) ==
    CASE c = "A" -> "a" [] c = "B" -> "b" [] c = "C" -> "c" [] c = "D" -> "d"
      [] c = "E" -> "e" [] c = "F" -> "f" [] c = "G" -> "g" [] c = "H" -> "h"
      [] c = "I" -> "i" [] c = "J" -> "j" [] c = "K" -> "k" [] c = "L" -> "l"
      [] c = "M" -> "m" [] c = "N" -> "n" [] c = "O" -> "o" [] c = "P" -> "p"
      [] c = "Q" -> "q" [] c = "R" -> "r" [] c = "S" -> "s" [] c = "T" -> "t"
      [] c = "U" -> "u" [] c = "V" -> "v" [] c = "W" -> "w" [] c = "X" -> "x"
      [] c = "Y" -> "y" [] c = "Z" -> "z" [] OTHER -> c

RECURSIVE LowerFrom(_, _)
LowerFrom(s, i) ==
    IF i > Len(s) THEN ""
    ELSE LowerChar(CharAt(s, i)) \o LowerFrom(s, i + 1)

\* s.lower()
Lower(s) == LowerFrom(s, 1)

IsSpace(c) == c \in {" ", "\t", "\n"}

RECURSIVE LStripIndex(_, _)
LStripIndex(s, i) ==
    IF i <= Len(s) /\ IsSpace(CharAt(s, i)) THEN LStripIndex(s, i + 1) ELSE i

RECURSIVE RStripIndex(_, _)
RStripIndex(s, j) ==
    IF j >= 1 /\ IsSpace(CharAt(s, j)) THEN RStripIndex(s, j - 1) ELSE j

\* s.strip()
Strip(s) ==
    LET i == LStripIndex(s, 1)
        j == RStripIndex(s, Len(s))
    IN IF i > j THEN "" ELSE SubSeq(s, i, j)

\* sub in s
Contains(s, sub) ==
    \E i \in 1..(Len(s) - Len(sub) + 1) : SubSeq(s, i, i + Len(sub) - 1) = sub

RECURSIVE ReplaceFrom(_, _, _, _)
ReplaceFrom(s, old, new, i) ==
    IF i + Len(old) - 1 > Len(s) THEN SubSeq(s, i, Len(s))
    ELSE IF SubSeq(s, i, i + Len(old) - 1) = old
         THEN new \o ReplaceFrom(s, old, new, i + Len(old))
         ELSE CharAt(s, i) \o ReplaceFrom(s, old, new, i + 1)

\* s.replace(old, new) for a non-empty old: leftmost non-overlapping occurrences
StrReplace(s, old, new) == ReplaceFrom(s, old, new, 1)

RECURSIVE DigitRunEnd(_, _)
\* last index of the run of digits that starts at i
DigitRunEnd(s, i) ==
    IF i + 1 <= Len(s) /\ CharAt(s, i + 1) \in Digits
    THEN DigitRunEnd(s, i + 1) ELSE i

RECURSIVE FindAllFrom(_, _)
FindAllFrom(s, i) ==
    IF i > Len(s) THEN <<>>
    ELSE IF CharAt(s, i) \notin Digits THEN FindAllFrom(s, i + 1)
    ELSE LET e1 == DigitRunEnd(s, i)
             e2 == IF /\ e1 + 2 <= Len(s)
                      /\ CharAt(s, e1 + 1) = "."
                      /\ CharAt(s, e1 + 2) \in Digits
                   THEN DigitRunEnd(s, e1 + 2) ELSE e1
         IN <<SubSeq(s, i, e2)>> \o FindAllFrom(s, e2 + 1)

\* re.findall(r'\d+(?:\.\d+)?', s)
FindAll(s) == FindAllFrom(s, 1)

(***************************************************************************)
(* analyze_salary_range (the later definition, the one the class keeps)    *)
(***************************************************************************)
BandMin == 10000
BandMax == 1000000

\* stands for every amount above the band, in hundredths
Huge == BandMax * 100 + 1

RECURSIVE ParseNatFrom(_, _, _)
ParseNatFrom(ds, i, acc) ==
    IF i > Len(ds) THEN acc
    ELSE IF acc > BandMax THEN acc
    ELSE ParseNatFrom(ds, i + 1, acc * 10 + DigitVal(CharAt(ds, i)))

DotIndex(tok) ==
    IF \E i \in 1..Len(tok) : CharAt(tok, i) = "."
    THEN CHOOSE i \in 1..Len(tok) : CharAt(tok, i) = "."
    ELSE 0

\* float(tok) for a token matched by \d+(?:\.\d+)?, in hundredths
Float(tok) ==
    LET dot == DotIndex(tok)
        ip == IF dot = 0 THEN tok ELSE SubSeq(tok, 1, dot - 1)
        fp == IF dot = 0 THEN "" ELSE SubSeq(tok, dot + 1, Len(tok))
        units == ParseNatFrom(ip, 1, 0)
        frac == (IF Len(fp) >= 1 THEN 10 * DigitVal(CharAt(fp, 1)) ELSE 0)
                + (IF Len(fp) >= 2 THEN DigitVal(CharAt(fp, 2)) ELSE 0)
    IN IF units > BandMax THEN Huge ELSE units * 100 + frac

\* a * m for an integer multiplier m >= 1
Times(a, m) == IF a > (BandMax * 100) \div m THEN Huge ELSE a * m

\* round(x, 2), x given in thousandths, result in hundredths
Round2(x) ==
    LET q == x \div 10
        r == x % 10
    IN IF r > 5 \/ (r = 5 /\ q % 2 = 1) THEN q + 1 ELSE q

multipliers == <<
    [key |-> "k", mult |-> 1000],
    [key |-> "m", mult |-> 1000000],
    [key |-> "thousand", mult |-> 1000],
    [key |-> "million", mult |-> 1000000],
    [key |-> "yr", mult |-> 1],
    [key |-> "year", mult |-> 1],
    [key |-> "annual", mult |-> 1] >>

time_multipliers == <<
    [key |-> "/hr", mult |-> 2080],
    [key |-> "per hour", mult |-> 2080],
    [key |-> "hourly", mult |-> 2080],
    [key |-> "/day", mult |-> 260],
    [key |-> "per day", mult |-> 260],
    [key |-> "daily", mult |-> 260],
    [key |-> "/wk", mult |-> 52],
    [key |-> "per week", mult |-> 52],
    [key |-> "weekly", mult |-> 52],
    [key |-> "/mo", mult |-> 12],
    [key |-> "per month", mult |-> 12],
    [key |-> "monthly", mult |-> 12] >>

\* the for ... if key in cleaned: ... break loops: index of the first entry
\* of the table whose key occurs in the text, 0 when the loop runs out
FirstMatch(table, text) ==
    IF \E i \in 1..Len(table) : Contains(text, table[i].key)
    THEN CHOOSE i \in 1..Len(table) :
            /\ Contains(text, table[i].key)
            /\ \A j \in 1..(i - 1) : ~Contains(text, table[j].key)
    ELSE 0

\* lines 198-200
CleanSalary(text) ==
    LET c1 == Strip(Lower(text))
        c2 == StrReplace(StrReplace(c1, "$", ""), ",", "")
    IN StrReplace(StrReplace(c2, "usd", ""), "us", "")

InBand(n) == BandMin * 100 <= n /\ n <= BandMax * 100

RECURSIVE SeqMin(_)
SeqMin(q) ==
    IF Len(q) = 1 THEN q[1]
    ELSE LET m == SeqMin(Tail(q)) IN IF q[1] <= m THEN q[1] ELSE m

RECURSIVE SeqMax(_)
SeqMax(q) ==
    IF Len(q) = 1 THEN q[1]
    ELSE LET m == SeqMax(Tail(q)) IN IF q[1] >= m THEN q[1] ELSE m

ZeroEstimate == [min_salary |-> 0, max_salary |-> 0, average_salary |-> 0]

\* the same extraction without the band filter of line 257
SalaryNumbers_unfiltered(text) ==
    LET cleaned == CleanSalary(text)
        t == FirstMatch(time_multipliers, cleaned)
        time_multiplier == IF t = 0 THEN 1 ELSE time_multipliers[t].mult
        cleaned2 == IF t = 0 THEN cleaned
                    ELSE StrReplace(cleaned, time_multipliers[t].key, "")
        g == FirstMatch(multipliers, cleaned2)
        magnitude_multiplier == IF g = 0 THEN 1 ELSE multipliers[g].mult
        cleaned3 == IF g = 0 THEN cleaned2
                    ELSE StrReplace(cleaned2, multipliers[g].key, "")
        raw_numbers == FindAll(cleaned3)
    IN [i \in 1..Len(raw_numbers) |->
          Times(Times(Float(raw_numbers[i]), magnitude_multiplier),
                time_multiplier)]

\* the same extraction with the matched period marker left in the text
\* (line 241 left out)
SalaryNumbers_period_kept(text) ==
    LET cleaned == CleanSalary(text)
        t == FirstMatch(time_multipliers, cleaned)
        time_multiplier == IF t = 0 THEN 1 ELSE time_multipliers[t].mult
        g == FirstMatch(multipliers, cleaned)
        magnitude_multiplier == IF g = 0 THEN 1 ELSE multipliers[g].mult
        cleaned3 == IF g = 0 THEN cleaned
                    ELSE StrReplace(cleaned, multipliers[g].key, "")
        raw_numbers == FindAll(cleaned3)
        numbers == [i \in 1..Len(raw_numbers) |->
                      Times(Times(Float(raw_numbers[i]), magnitude_multiplier),
                            time_multiplier)]
    IN SelectSeq(numbers, InBand)

\* lines 237-257: the surviving numbers of a text, in hundredths
SalaryNumbers(text) ==
    LET cleaned == CleanSalary(text)
        t == FirstMatch(time_multipliers, cleaned)
        time_multiplier == IF t = 0 THEN 1 ELSE time_multipliers[t].mult
        cleaned2 == IF t = 0 THEN cleaned
                    ELSE StrReplace(cleaned, time_multipliers[t].key, "")
        g == FirstMatch(multipliers, cleaned2)
        magnitude_multiplier == IF g = 0 THEN 1 ELSE multipliers[g].mult
        cleaned3 == IF g = 0 THEN cleaned2
                    ELSE StrReplace(cleaned2, multipliers[g].key, "")
        raw_numbers == FindAll(cleaned3)
        numbers == [i \in 1..Len(raw_numbers) |->
                      Times(Times(Float(raw_numbers[i]), magnitude_multiplier),
                            time_multiplier)]
    IN SelectSeq(numbers, InBand)

\* the decision of the earlier definition (lines 95-109): a single number is
\* returned as it is, with no synthetic range
EstimateOf_first_definition(numbers) ==
    IF Len(numbers) >= 2 THEN
        [min_salary |-> Round2(10 * SeqMin(numbers)),
         max_salary |-> Round2(10 * SeqMax(numbers)),
         average_salary |-> Round2(5 * (SeqMin(numbers) + SeqMax(numbers)))]
    ELSE IF Len(numbers) = 1 THEN
        [min_salary |-> Round2(10 * numbers[1]),
         max_salary |-> Round2(10 * numbers[1]),
         average_salary |-> Round2(10 * numbers[1])]
    ELSE ZeroEstimate

\* the decision with the midpoint's division by 2 left out
EstimateOf_undivided(numbers) ==
    IF Len(numbers) >= 2 THEN
        [min_salary |-> Round2(10 * SeqMin(numbers)),
         max_salary |-> Round2(10 * SeqMax(numbers)),
         average_salary |-> Round2(10 * (SeqMin(numbers) + SeqMax(numbers)))]
    ELSE IF Len(numbers) = 1 THEN
        [min_salary |-> Round2(9 * numbers[1]),
         max_salary |-> Round2(11 * numbers[1]),
         average_salary |-> Round2(10 * numbers[1])]
    ELSE ZeroEstimate

\* lines 259-273: the estimate made from the surviving numbers
EstimateOf(numbers) ==
    IF Len(numbers) >= 2 THEN
        LET min_sal == SeqMin(numbers)
            max_sal == SeqMax(numbers)
        IN [min_salary |-> Round2(10 * min_sal),
            max_salary |-> Round2(10 * max_sal),
            average_salary |-> Round2(5 * (min_sal + max_sal))]
    ELSE IF Len(numbers) = 1 THEN
        LET salary == numbers[1]
        IN [min_salary |-> Round2(9 * salary),
            max_salary |-> Round2(11 * salary),
            average_salary |-> Round2(10 * salary)]
    ELSE ZeroEstimate

\* lines 198-273 once the guard has let the value through; str.lower exists
\* only on text. Falling out of the if/elif reaches the return of lines 278-282
SalaryParse(v) ==
    IF v.type # "str" THEN Raise("AttributeError")
    ELSE Return(EstimateOf(SalaryNumbers(v.s)))

\* the body of the try block, lines 194-273
SalaryTry(v) ==
    IF ~Truthy(v) \/ v.type # "str" THEN Return(ZeroEstimate)
    ELSE SalaryParse(v)

\* the same function with neither the guard of line 194 nor the try
analyze_salary_range_unguarded(v) == SalaryParse(v)

\* lines 275-282: except Exception prints and falls to the zero return
ExceptToZero(r) == IF r.kind = "raise" THEN Return(ZeroEstimate) ELSE r

\* lines 192-282
analyze_salary_range(v) == ExceptToZero(SalaryTry(v))

(***************************************************************************)
(* Driver of analyze_salary_range: a salary text is typed fragment by      *)
(* fragment (or a value that is not text is passed), then the function is  *)
(* called once.                                                            *)
(***************************************************************************)
MaxParts == 3

SalaryFragments ==
    {"$50,000", "$80,000", "45", " 10000.12 ", " - ", "K", "M", "/hr",
     " per month", " USD", " a year", " thousand"}

NonText == {None, PyInt(0), PyInt(50000)}

NotCalled == [kind |-> "none"]

\* base_scraper.py lines 53-61: the keys of a normalized listing
NormalizedFields ==
    {"title", "company", "location", "description", "salary_range", "skills",
     "url", "posted_date", "source"}

\* the keys a raw record may hold: the nine above and one no listing has
RawKeys == NormalizedFields \cup {"job_id"}

\* the dict {}
EmptyRecord == [k \in RawKeys |-> Missing]

SalaryInit ==
    /\ pc = "input"
    /\ typed = 0
    /\ salary_text = Str("")
    /\ estimate = NotCalled
    /\ description = Str("")
    /\ work_type = NotCalled
    /\ jobs = <<>>
    /\ query = <<>>
    /\ result = NotCalled
    /\ raw_job = EmptyRecord

TypeSalary(f) ==
    /\ pc = "input"
    /\ salary_text.type = "str"
    /\ typed < MaxParts
    /\ typed' = typed + 1
    /\ salary_text' = Str(salary_text.s \o f)
    /\ UNCHANGED <<pc, estimate, description, work_type, jobs, query, result, raw_job>>

PassNonText(v) ==
    /\ pc = "input"
    /\ typed = 0
    /\ salary_text = Str("")
    /\ salary_text' = v
    /\ UNCHANGED <<pc, typed, estimate, description, work_type, jobs, query, result, raw_job>>

CallAnalyzeSalary ==
    /\ pc = "input"
    /\ estimate' = analyze_salary_range(salary_text)
    /\ pc' = "done"
    /\ UNCHANGED <<typed, salary_text, description, work_type, jobs, query, result, raw_job>>

SalaryNext ==
    \/ \E f \in SalaryFragments : TypeSalary(f)
    \/ \E v \in NonText : PassNonText(v)
    \/ CallAnalyzeSalary

SalarySpec == SalaryInit /\ [][SalaryNext]_vars

(***************************************************************************)
(* Properties of analyze_salary_range                                      *)
(***************************************************************************)
\* the in-band numbers one reads in a cleaned text itself, in hundredths
PlainNumbers(cleaned) ==
    LET raw == FindAll(cleaned)
    IN SelectSeq([i \in 1..Len(raw) |-> Float(raw[i])], InBand)

NoPeriodMarker(cleaned) ==
    \A i \in 1..Len(time_multipliers) : ~Contains(cleaned, time_multipliers[i].key)

NoMagnitudeMarker(cleaned) ==
    \A i \in 1..Len(multipliers) : ~Contains(cleaned, multipliers[i].key)

Analyzed == pc = "done" /\ estimate.kind = "return" /\ salary_text.type = "str"

PointEstimate(n) ==
    [min_salary |-> Round2(9 * n), max_salary |-> Round2(11 * n),
     average_salary |-> Round2(10 * n)]

RangeEstimate(a, b) ==
    [min_salary |-> Round2(10 * a), max_salary |-> Round2(10 * b),
     average_salary |-> Round2(5 * (a + b))]

\* C1 as stated: a text with exactly one number N in the band and no period
\* marker is estimated as min = 0.9 N, max = 1.1 N, average = N, rounded to
\* 2 decimals.
C1_AsStated ==
    Analyzed =>
        LET cleaned == CleanSalary(salary_text.s)
            plain == PlainNumbers(cleaned)
        IN (Len(plain) = 1 /\ NoPeriodMarker(cleaned))
           => estimate.value = PointEstimate(plain[1])

\* C1 amended: a text whose cleaned form holds exactly one number N in the
\* band, no period marker and no magnitude marker (k, m, thousand, million,
\* yr, year, annual) is estimated as min = 0.9 N, max = 1.1 N, average = N,
\* rounded to 2 decimals.
C1_PointEstimate ==
    Analyzed =>
        LET cleaned == CleanSalary(salary_text.s)
            plain == PlainNumbers(cleaned)
        IN (Len(plain) = 1 /\ NoPeriodMarker(cleaned) /\ NoMagnitudeMarker(cleaned))
           => estimate.value = PointEstimate(plain[1])

\* a fractional amount alone in the text: 10000.12 gives 9000.11 (rounded from
\* 9000.108), 11000.13 and 10000.12
C1_Witness ==
    /\ Analyzed
    /\ estimate.value = [min_salary |-> 900011, max_salary |-> 1100013,
                         average_salary |-> 1000012]
    /\ LET cleaned == CleanSalary(salary_text.s)
       IN /\ PlainNumbers(cleaned) = <<1000012>>
          /\ NoPeriodMarker(cleaned)
          /\ NoMagnitudeMarker(cleaned)

\* C2 as stated: a text with two numbers A <= B, both in the band, is
\* estimated as min = A, max = B, average = (A + B) / 2.
C2_AsStated ==
    Analyzed =>
        LET plain == PlainNumbers(CleanSalary(salary_text.s))
        IN Len(plain) = 2
           => estimate.value = RangeEstimate(SeqMin(plain), SeqMax(plain))

\* C2 amended: a text whose cleaned form holds two numbers A <= B in the
\* band, no period marker and no magnitude marker is estimated as min = A,
\* max = B, average = (A + B) / 2, rounded to 2 decimals.
C2_RangeEstimate ==
    Analyzed =>
        LET cleaned == CleanSalary(salary_text.s)
            plain == PlainNumbers(cleaned)
        IN (Len(plain) = 2 /\ NoPeriodMarker(cleaned) /\ NoMagnitudeMarker(cleaned))
           => estimate.value = RangeEstimate(SeqMin(plain), SeqMax(plain))

\* "$50,000 - $80,000" gives 50000, 80000 and 65000
C2_Witness ==
    /\ Analyzed
    /\ estimate.value = [min_salary |-> 5000000, max_salary |-> 8000000,
                         average_salary |-> 6500000]
    /\ LET cleaned == CleanSalary(salary_text.s)
       IN /\ PlainNumbers(cleaned) = <<5000000, 8000000>>
          /\ NoPeriodMarker(cleaned)
          /\ NoMagnitudeMarker(cleaned)

\* C3: every estimate is either all zero, or all non-zero with
\* min_salary <= average_salary <= max_salary.
C3_EstimateShape ==
    pc = "done" =>
        /\ estimate.kind = "return"
        /\ LET e == estimate.value
           IN \/ e.min_salary = 0 /\ e.max_salary = 0 /\ e.average_salary = 0
              \/ /\ e.min_salary # 0 /\ e.max_salary # 0 /\ e.average_salary # 0
                 /\ e.min_salary <= e.average_salary
                 /\ e.average_salary <= e.max_salary

\* a range read from two different amounts, strictly ordered
C3_Witness ==
    /\ Analyzed
    /\ 0 < estimate.value.min_salary
    /\ estimate.value.min_salary < estimate.value.average_salary
    /\ estimate.value.average_salary < estimate.value.max_salary
    /\ Len(SalaryNumbers(salary_text.s)) >= 2

\* C4: analyze_salary_range never raises; for an empty string, None or a
\* value that is not text it returns the all-zero estimate.
C4_NeverRaises ==
    pc = "done" =>
        /\ estimate.kind = "return"
        /\ (~Truthy(salary_text) \/ salary_text.type # "str")
              => estimate.value = ZeroEstimate

\* a number that is not text was passed and the zero estimate came back
C4_Witness ==
    /\ pc = "done"
    /\ salary_text = PyInt(50000)
    /\ estimate = Return(ZeroEstimate)

(***************************************************************************)
(* detect_work_type                                                        *)
(***************************************************************************)
\* lines 15-19, in the order the dict is written
work_type_keywords == <<
    [type |-> "On-site",
     keywords |-> <<"on-site", "onsite", "in office", "in-office",
                    "office based", "office-based", "on location",
                    "on-location", "physical location">>],
    [type |-> "Remote",
     keywords |-> <<"remote", "work from home", "wfh", "virtual",
                    "telecommute", "telework", "100% remote",
                    "fully remote">>],
    [type |-> "Hybrid",
     keywords |-> <<"hybrid", "flexible", "partially remote",
                    "remote optional", "flexible work arrangement",
                    "mix of remote and office">>] >>

WorkTypes == {work_type_keywords[i].type : i \in 1..Len(work_type_keywords)}

KeywordsOf(wt) ==
    LET i == CHOOSE j \in 1..Len(work_type_keywords) :
                 work_type_keywords[j].type = wt
    IN work_type_keywords[i].keywords

\* line 163
context_markers == {"job type:", "work arrangement:", "location:", "position type:"}

HasContext(desc) == \E c \in context_markers : Contains(desc, c)

\* the score of one keyword with the subtraction weighted like the addition:
\* 2 when a context marker is present
KeywordScore_negation_weighted(desc, keyword) ==
    (IF Contains(desc, keyword)
     THEN (IF HasContext(desc) THEN 2 ELSE 1)
     ELSE 0)
    - (IF Contains(desc, "not " \o keyword) \/ Contains(desc, "no " \o keyword)
       THEN (IF HasContext(desc) THEN 2 ELSE 1) ELSE 0)

\* the score of one keyword with the addition made only when no negated form
\* is present
KeywordScore_negation_exclusive(desc, keyword) ==
    IF Contains(desc, "not " \o keyword) \/ Contains(desc, "no " \o keyword)
    THEN 0 - 1
    ELSE IF Contains(desc, keyword)
         THEN (IF HasContext(desc) THEN 2 ELSE 1)
         ELSE 0

\* lines 161-170 for one keyword: what it adds to its category
KeywordScore(desc, keyword) ==
    (IF Contains(desc, keyword)
     THEN (IF HasContext(desc) THEN 2 ELSE 1)
     ELSE 0)
    - (IF Contains(desc, "not " \o keyword) \/ Contains(desc, "no " \o keyword)
       THEN 1 ELSE 0)

RECURSIVE SumScores(_, _, _)
SumScores(desc, keywords, i) ==
    IF i > Len(keywords) THEN 0
    ELSE KeywordScore(desc, keywords[i]) + SumScores(desc, keywords, i + 1)

\* lines 155-170: matches[work_type] for the lower-cased description
Matches(desc) ==
    LET counts == <<SumScores(desc, work_type_keywords[1].keywords, 1),
                    SumScores(desc, work_type_keywords[2].keywords, 1),
                    SumScores(desc, work_type_keywords[3].keywords, 1)>>
    IN [wt \in WorkTypes |->
           counts[CHOOSE i \in 1..3 : work_type_keywords[i].type = wt]]

\* the tie-break order with Hybrid put before Remote
priority_order_hybrid_first == <<"Hybrid", "Remote", "On-site">>

\* line 185
priority_order == <<"Remote", "Hybrid", "On-site">>

\* the decision without the filter of line 175
Decide_unfiltered(matches) ==
    LET max_matches == CHOOSE m \in {matches[k] : k \in WorkTypes} :
                           \A k \in WorkTypes : matches[k] <= m
        max_types == {wt \in WorkTypes : matches[wt] = max_matches}
    IN IF Cardinality(max_types) = 1
       THEN CHOOSE wt \in max_types : TRUE
       ELSE LET i == CHOOSE j \in 1..Len(priority_order) :
                        /\ priority_order[j] \in max_types
                        /\ \A h \in 1..(j - 1) : priority_order[h] \notin max_types
            IN priority_order[i]

\* the decision with a tie resolved by the order of the keyword table (the
\* tied category met last) in place of priority_order
Decide_last_of_ties(matches) ==
    LET valid_matches == {k \in WorkTypes : matches[k] > 0}
    IN IF valid_matches = {} THEN "Unknown"
       ELSE LET max_matches == CHOOSE m \in {matches[k] : k \in valid_matches} :
                                   \A k \in valid_matches : matches[k] <= m
                i == CHOOSE j \in 1..Len(work_type_keywords) :
                         /\ work_type_keywords[j].type \in valid_matches
                         /\ matches[work_type_keywords[j].type] = max_matches
                         /\ \A h \in (j + 1)..Len(work_type_keywords) :
                                \/ work_type_keywords[h].type \notin valid_matches
                                \/ matches[work_type_keywords[h].type] # max_matches
            IN work_type_keywords[i].type

\* lines 173-190
Decide(matches) ==
    LET valid_matches == {k \in WorkTypes : matches[k] > 0}
    IN IF valid_matches = {} THEN "Unknown"
       ELSE LET max_matches == CHOOSE m \in {matches[k] : k \in valid_matches} :
                                   \A k \in valid_matches : matches[k] <= m
                max_types == {wt \in valid_matches : matches[wt] = max_matches}
            IN IF Cardinality(max_types) = 1
               THEN CHOOSE wt \in max_types : TRUE
               ELSE LET i == CHOOSE j \in 1..Len(priority_order) :
                                /\ priority_order[j] \in max_types
                                /\ \A h \in 1..(j - 1) :
                                       priority_order[h] \notin max_types
                    IN priority_order[i]

\* lines 150-190; str.lower exists only on text
detect_work_type(v) ==
    IF ~Truthy(v) THEN Return("Unknown")
    ELSE IF v.type # "str" THEN Raise("AttributeError")
    ELSE Return(Decide(Matches(Lower(v.s))))

(***************************************************************************)
(* Driver of detect_work_type: a description is typed fragment by          *)
(* fragment, then the function is called once.                             *)
(***************************************************************************)
MaxWords == 3

DescriptionFragments ==
    {"Remote ", "hybrid ", "onsite ", "wfh ", "flexible ", "partially ",
     "not ", "no ", "Job Type: "}

WorkInit ==
    /\ pc = "input"
    /\ typed = 0
    /\ salary_text = Str("")
    /\ estimate = NotCalled
    /\ description = Str("")
    /\ work_type = NotCalled
    /\ jobs = <<>>
    /\ query = <<>>
    /\ result = NotCalled
    /\ raw_job = EmptyRecord

TypeDescription(f) ==
    /\ pc = "input"
    /\ typed < MaxWords
    /\ typed' = typed + 1
    /\ description' = Str(description.s \o f)
    /\ UNCHANGED <<pc, salary_text, estimate, work_type, jobs, query, result, raw_job>>

CallDetectWorkType ==
    /\ pc = "input"
    /\ work_type' = detect_work_type(description)
    /\ pc' = "done"
    /\ UNCHANGED <<typed, salary_text, estimate, description, jobs, query, result, raw_job>>

WorkNext ==
    \/ \E f \in DescriptionFragments : TypeDescription(f)
    \/ CallDetectWorkType

WorkSpec == WorkInit /\ [][WorkNext]_vars

(***************************************************************************)
(* Properties of detect_work_type                                          *)
(***************************************************************************)
\* the scores of the three categories for the description given
Scores == Matches(Lower(description.s))

\* the categories whose score is positive and maximal
TopTypes(scores) ==
    {wt \in WorkTypes :
        /\ scores[wt] > 0
        /\ \A other \in WorkTypes : scores[other] <= scores[wt]}

\* C5: detect_work_type never fails on a description and returns one of
\* On-site, Remote, Hybrid, Unknown: Unknown for the empty description and when
\* no category scores above 0, otherwise a category whose score is positive
\* and maximal.
C5_TotalClassifier ==
    pc = "done" =>
        /\ work_type.kind = "return"
        /\ work_type.value \in {"On-site", "Remote", "Hybrid", "Unknown"}
        /\ description.s = "" => work_type.value = "Unknown"
        /\ LET scores == Scores
           IN IF \A wt \in WorkTypes : scores[wt] <= 0
              THEN work_type.value = "Unknown"
              ELSE work_type.value \in TopTypes(scores)

\* a description that names a category and whose every score is cancelled by
\* a negation: "not remote" without context marker scores 0
C5_Witness ==
    /\ pc = "done"
    /\ work_type = Return("Unknown")
    /\ description.s # ""
    /\ \E wt \in WorkTypes : Contains(Lower(description.s), KeywordsOf(wt)[1])
    /\ \A wt \in WorkTypes : Scores[wt] <= 0

\* C6: among two or three categories sharing the maximum positive score the
\* result is the first of Remote, Hybrid, On-site; a single category with
\* the maximum positive score is the result.
C6_TieBreak ==
    pc = "done" =>
        LET top == TopTypes(Scores)
        IN /\ Cardinality(top) = 1 => work_type.value \in top
           /\ Cardinality(top) >= 2 =>
                 /\ "Remote" \in top => work_type.value = "Remote"
                 /\ "Remote" \notin top => work_type.value = "Hybrid"

\* Hybrid and On-site tie above Remote, and Hybrid is returned
C6_Witness ==
    /\ pc = "done"
    /\ work_type = Return("Hybrid")
    /\ TopTypes(Scores) = {"Hybrid", "On-site"}

(***************************************************************************)
(* extract_skills                                                          *)
(***************************************************************************)
\* lines 12-14
common_skills ==
    {"python", "java", "javascript", "sql", "aws", "react", "node.js",
     "docker", "kubernetes", "machine learning", "data analysis"}

RECURSIVE TokensFrom(_, _, _)
TokensFrom(s, i, cur) ==
    LET flush == IF cur = "" THEN <<>> ELSE <<cur>>
    IN IF i > Len(s) THEN flush
       ELSE IF IsSpace(CharAt(s, i)) THEN flush \o TokensFrom(s, i + 1, "")
       ELSE IF CharAt(s, i) = "," THEN flush \o <<",">> \o TokensFrom(s, i + 1, "")
       ELSE TokensFrom(s, i + 1, cur \o CharAt(s, i))

\* the tokens self.nlp gives for the texts of the model: words separated by
\* blanks, a comma split off as a token of its own
Tokenize(s) == TokensFrom(s, 1, "")

\* the loop with the compound branch of lines 31-34 left out
SkillsOfTokens_single_tokens(doc) ==
    {doc[i] : i \in {j \in 1..Len(doc) : doc[j] \in common_skills}}

\* lines 24-36 on the token sequence doc
SkillsOfTokens(doc) ==
    {doc[i] : i \in {j \in 1..Len(doc) : doc[j] \in common_skills}}
    \cup {doc[i] \o " " \o doc[i + 1] :
            i \in {j \in 1..(Len(doc) - 1) :
                     (doc[j] \o " " \o doc[j + 1]) \in common_skills}}

\* lines 21-36; str.lower exists only on text
extract_skills(v) ==
    IF v.type # "str" THEN Raise("AttributeError")
    ELSE Return(SkillsOfTokens(Tokenize(Lower(v.s))))

(***************************************************************************)
(* Listings and the aggregate queries                                      *)
(***************************************************************************)
\* job.get(key, default)
Get(job, key, default) == IF job[key].type = "missing" THEN default ELSE job[key]

DigitChar(d) ==
    CASE d = 0 -> "0" [] d = 1 -> "1" [] d = 2 -> "2" [] d = 3 -> "3"
      [] d = 4 -> "4" [] d = 5 -> "5" [] d = 6 -> "6" [] d = 7 -> "7"
      [] d = 8 -> "8" [] d = 9 -> "9"

RECURSIVE NatToStr(_)
NatToStr(n) == IF n < 10 THEN DigitChar(n) ELSE NatToStr(n \div 10) \o DigitChar(n % 10)

\* str(v)
PyStr(v) ==
    CASE v.type = "str" -> v.s
      [] v.type = "int" -> NatToStr(v.n)
      [] OTHER -> "None"

\* collections.Counter(items) as a mapping
Counter(items) ==
    [x \in {items[i] : i \in 1..Len(items)} |->
        Cardinality({i \in 1..Len(items) : items[i] = x})]

\* a loop or comprehension over the listings: outcomes[i] is what listing i
\* gives, a sequence of contributions or a raise; the first raise ends it
RECURSIVE Collect(_, _)
Collect(outcomes, i) ==
    IF i > Len(outcomes) THEN Return(<<>>)
    ELSE IF outcomes[i].kind = "raise" THEN outcomes[i]
    ELSE LET rest == Collect(outcomes, i + 1)
         IN IF rest.kind = "raise" THEN rest
            ELSE Return(outcomes[i].value \o rest.value)

RECURSIVE SetToSeq(_)
\* list(skills): the order of a set's elements is not used by the caller
SetToSeq(S) ==
    IF S = {} THEN <<>>
    ELSE LET x == CHOOSE y \in S : TRUE IN <<x>> \o SetToSeq(S \ {x})

\* lines 131-133 for one listing
SkillsOfJob(job) ==
    LET r == extract_skills(Get(job, "description", Str("")))
    IN IF r.kind = "raise" THEN r ELSE Return(SetToSeq(r.value))

\* lines 120-135
get_skill_trends(js) ==
    LET all_skills == Collect([i \in 1..Len(js) |-> SkillsOfJob(js[i])], 1)
    IN IF all_skills.kind = "raise" THEN all_skills
       ELSE Return(Counter(all_skills.value))

\* s.split(',')[0]
SplitFirst(s) ==
    IF Contains(s, ",")
    THEN LET i == CHOOSE j \in 1..Len(s) :
                     /\ CharAt(s, j) = ","
                     /\ \A h \in 1..(j - 1) : CharAt(s, h) # ","
         IN SubSeq(s, 1, i - 1)
    ELSE s

\* lines 146-147 for one listing; str.split exists only on text
LocationOfJob(job) ==
    IF ~Truthy(Get(job, "location", None)) THEN Return(<<>>)
    ELSE IF Get(job, "location", Str("")).type # "str" THEN Raise("AttributeError")
    ELSE Return(<<Strip(SplitFirst(Get(job, "location", Str("")).s))>>)

\* lines 137-148
get_location_trends(js) ==
    LET locations == Collect([i \in 1..Len(js) |-> LocationOfJob(js[i])], 1)
    IN IF locations.kind = "raise" THEN locations
       ELSE Return(Counter(locations.value))

\* line 307 (and the test of line 296) for one listing
WorkTypeOfJob(job) ==
    LET r == detect_work_type(Get(job, "description", Str("")))
    IN IF r.kind = "raise" THEN r ELSE Return(<<r.value>>)

\* the distribution with the listings of unknown work type left out
get_work_type_distribution_known_only(js) ==
    LET work_types == Collect([i \in 1..Len(js) |-> WorkTypeOfJob(js[i])], 1)
    IN IF work_types.kind = "raise" THEN work_types
       ELSE Return(Counter(SelectSeq(work_types.value, LAMBDA w : w # "Unknown")))

\* lines 298-308
get_work_type_distribution(js) ==
    LET work_types == Collect([i \in 1..Len(js) |-> WorkTypeOfJob(js[i])], 1)
    IN IF work_types.kind = "raise" THEN work_types
       ELSE Return(Counter(work_types.value))

\* line 296 for one listing
KeepIfWorkType(job, wt) ==
    LET r == detect_work_type(Get(job, "description", Str("")))
    IN IF r.kind = "raise" THEN r
       ELSE Return(IF r.value = wt THEN <<job>> ELSE <<>>)

\* the filter without the sentinel test of lines 294-295
filter_jobs_by_work_type_no_sentinel(js, wt) ==
    Collect([i \in 1..Len(js) |-> KeepIfWorkType(js[i], wt)], 1)

\* lines 284-296
filter_jobs_by_work_type(js, wt) ==
    IF wt = "All" THEN Return(js)
    ELSE Collect([i \in 1..Len(js) |-> KeepIfWorkType(js[i], wt)], 1)

\* lines 324-325, 328-332: what the parse of one listing appends to salaries;
\* an exception is caught, reported and the loop continues
AppendedAverage(r) ==
    IF r.kind = "raise" THEN Return(<<>>)
    ELSE IF r.value.average_salary > 0
         THEN Return(<<r.value.average_salary>>)
         ELSE Return(<<>>)

\* lines 321-332 for one listing
SalaryOfJob(job) ==
    IF Truthy(Get(job, "salary_range", None))
    THEN AppendedAverage(analyze_salary_range(job.salary_range))
    ELSE IF job.salary.type # "missing"
         THEN AppendedAverage(analyze_salary_range(Str(PyStr(job.salary))))
         ELSE Return(<<>>)

RECURSIVE Insert(_, _)
Insert(x, sorted) ==
    IF sorted = <<>> THEN <<x>>
    ELSE IF x <= Head(sorted) THEN <<x>> \o sorted
    ELSE <<Head(sorted)>> \o Insert(x, Tail(sorted))

RECURSIVE Sorted(_)
\* sorted(q)
Sorted(q) == IF q = <<>> THEN <<>> ELSE Insert(Head(q), Sorted(Tail(q)))

RECURSIVE SeqSum(_)
SeqSum(q) == IF q = <<>> THEN 0 ELSE Head(q) + SeqSum(Tail(q))

(***************************************************************************)
(* Python floats in sum(salaries) / len(salaries).  An IEEE 754 double is  *)
(* kept as its binary expansion, most significant bit first: IntegerBits   *)
(* bits before the point and FractionBits bits after it.  Every amount met *)
(* here lies between 10000 and 2^IntegerBits, so the 53 significant bits   *)
(* of a double and the two bits that decide its rounding fit the           *)
(* expansion.                                                              *)
(***************************************************************************)
SignificantBits == 53
IntegerBits == 23
FractionBits == 41

RECURSIVE NatBits(_, _)
\* the k-bit expansion of the natural number n
NatBits(n, k) == IF k = 0 THEN <<>> ELSE NatBits(n \div 2, k - 1) \o <<n % 2>>

RECURSIVE CentBits(_, _)
\* the first k bits of the expansion of r / 100, r < 100
CentBits(r, k) ==
    IF k = 0 THEN <<>>
    ELSE <<(2 * r) \div 100>> \o CentBits((2 * r) % 100, k - 1)

RECURSIVE CentRest(_, _)
\* what is left of r / 100 after k bits, in units of 1/100 of the last bit
CentRest(r, k) == IF k = 0 THEN r ELSE CentRest((2 * r) % 100, k - 1)

RECURSIVE Zeros(_)
Zeros(k) == IF k = 0 THEN <<>> ELSE <<0>> \o Zeros(k - 1)

RECURSIVE Increment(_, _)
\* bits plus one unit of position pos
Increment(bits, pos) ==
    IF pos = 0 THEN bits
    ELSE IF bits[pos] = 0 THEN [bits EXCEPT ![pos] = 1]
    ELSE Increment([bits EXCEPT ![pos] = 0], pos - 1)

\* round to nearest, ties to even, at position last; inexact tells that the
\* value has more bits than the expansion holds
RoundAt(bits, inexact, last) ==
    IF last >= Len(bits) THEN bits
    ELSE IF /\ bits[last + 1] = 1
            /\ \/ inexact
               \/ \E i \in (last + 2)..Len(bits) : bits[i] = 1
               \/ bits[last] = 1
         THEN Increment(SubSeq(bits, 1, last) \o Zeros(Len(bits) - last), last)
         ELSE SubSeq(bits, 1, last) \o Zeros(Len(bits) - last)

\* the double nearest to the value of bits
RoundToDouble(bits, inexact) ==
    IF \A i \in 1..Len(bits) : bits[i] = 0 THEN bits
    ELSE RoundAt(bits, inexact,
                 (CHOOSE i \in 1..Len(bits) :
                      bits[i] = 1 /\ \A j \in 1..(i - 1) : bits[j] = 0)
                 + SignificantBits - 1)

\* the float a number of hundredths is stored as
Double(h) ==
    RoundToDouble(NatBits(h \div 100, IntegerBits) \o CentBits(h % 100, FractionBits),
                  CentRest(h % 100, FractionBits) # 0)

RECURSIVE AddBits(_, _, _, _)
\* the exact sum of two expansions, from position i upwards
AddBits(a, b, i, carry) ==
    IF i = 0 THEN <<>>
    ELSE IF a[i] + b[i] + carry >= 2
         THEN AddBits(a, b, i - 1, 1) \o <<a[i] + b[i] + carry - 2>>
         ELSE AddBits(a, b, i - 1, 0) \o <<a[i] + b[i] + carry>>

\* a + b on floats
FloatAdd(a, b) == RoundToDouble(AddBits(a, b, Len(a), 0), FALSE)

RECURSIVE QuotientBits(_, _, _, _)
\* long division of an expansion by the natural number n
QuotientBits(a, n, i, rem) ==
    IF i > Len(a) THEN <<>>
    ELSE IF 2 * rem + a[i] >= n
         THEN <<1>> \o QuotientBits(a, n, i + 1, 2 * rem + a[i] - n)
         ELSE <<0>> \o QuotientBits(a, n, i + 1, 2 * rem + a[i])

RECURSIVE Remainder(_, _, _, _)
Remainder(a, n, i, rem) ==
    IF i > Len(a) THEN rem
    ELSE IF 2 * rem + a[i] >= n
         THEN Remainder(a, n, i + 1, 2 * rem + a[i] - n)
         ELSE Remainder(a, n, i + 1, 2 * rem + a[i])

\* a / n on floats, n a positive int
FloatDiv(a, n) == RoundToDouble(QuotientBits(a, n, 1, 0), Remainder(a, n, 1, 0) # 0)

RECURSIVE FloatSum(_, _, _)
\* sum(salaries): the floats are added from left to right
FloatSum(salaries, i, acc) ==
    IF i > Len(salaries) THEN acc
    ELSE FloatSum(salaries, i + 1, FloatAdd(acc, Double(salaries[i])))

\* a <= b on floats that are not negative
FloatLeq(a, b) ==
    \/ a = b
    \/ \E i \in 1..Len(a) : a[i] < b[i] /\ \A j \in 1..(i - 1) : a[j] = b[j]

\* lines 335-340
ZeroStatistics ==
    [min_salary |-> 0, max_salary |-> 0, average_salary |-> Double(0),
     median_salary |-> 0]

\* the statistics with the lower of the two middle elements as the median
StatisticsOf_lower_median(salaries) ==
    IF salaries = <<>> THEN Raise("ValueError")
    ELSE Return([min_salary |-> SeqMin(salaries),
                 max_salary |-> SeqMax(salaries),
                 average_salary |->
                     FloatDiv(FloatSum(salaries, 1, Double(0)), Len(salaries)),
                 median_salary |-> Sorted(salaries)[((Len(salaries) - 1) \div 2) + 1]])

\* lines 342-347; min([]) raises ValueError
StatisticsOf(salaries) ==
    IF salaries = <<>> THEN Raise("ValueError")
    ELSE Return([min_salary |-> SeqMin(salaries),
                 max_salary |-> SeqMax(salaries),
                 average_salary |->
                     FloatDiv(FloatSum(salaries, 1, Double(0)), Len(salaries)),
                 median_salary |-> Sorted(salaries)[(Len(salaries) \div 2) + 1]])

\* the rollup without the empty test of lines 334-340
get_salary_insights_no_empty_test(js) ==
    StatisticsOf(Collect([i \in 1..Len(js) |-> SalaryOfJob(js[i])], 1).value)

\* lines 334-347
RollUp(salaries) ==
    IF salaries = <<>> THEN Return(ZeroStatistics) ELSE StatisticsOf(salaries)

\* lines 310-347
get_salary_insights(js) ==
    RollUp(Collect([i \in 1..Len(js) |-> SalaryOfJob(js[i])], 1).value)

(***************************************************************************)
(* Driver of the aggregate queries: listings are collected one by one,     *)
(* then one query runs over the collection.                                *)
(***************************************************************************)
MaxJobs == 3

Job(d, l, sr, sal) == [description |-> d, location |-> l, salary_range |-> sr, salary |-> sal]

\* listings as the scrapers normalise them (every key present, no salary
\* key), records with keys left out or a salary key, and records whose
\* description, location or salary is not text
Listings ==
    {Job(Str("Fully Remote, Python"), Str("Austin, TX"), Str("$50,000 - $80,000"), Missing),
     Job(Str("hybrid onsite sql"), Str(" Austin "), Str(""), Missing),
     Job(Str(""), Str(""), Str(""), PyInt(50000)),
     Job(Missing, Missing, Missing, None),
     Job(PyInt(7), Str("Boston, MA"), Str("45/hr"), Missing),
     Job(Str("onsite python"), PyInt(5), PyInt(50000), Missing),
     Job(None, None, None, Missing),
     Job(Str("Remote"), Str("Austin, TX"), Str("$352,347.85"), Missing)}

FilterArguments == {"All", "On-site", "Remote", "Hybrid", "Unknown"}

Init ==
    /\ pc = "input"
    /\ typed = 0
    /\ salary_text = Str("")
    /\ estimate = NotCalled
    /\ description = Str("")
    /\ work_type = NotCalled
    /\ jobs = <<>>
    /\ query = <<>>
    /\ result = NotCalled
    /\ raw_job = EmptyRecord

AddJob(job) ==
    /\ pc = "input"
    /\ Len(jobs) < MaxJobs
    /\ jobs' = Append(jobs, job)
    /\ UNCHANGED <<pc, typed, salary_text, estimate, description, work_type, query,
                   result, raw_job>>

CallSkillTrends ==
    /\ pc = "input"
    /\ query' = <<"get_skill_trends">>
    /\ result' = get_skill_trends(jobs)
    /\ pc' = "done"
    /\ UNCHANGED <<typed, salary_text, estimate, description, work_type, jobs, raw_job>>

CallLocationTrends ==
    /\ pc = "input"
    /\ query' = <<"get_location_trends">>
    /\ result' = get_location_trends(jobs)
    /\ pc' = "done"
    /\ UNCHANGED <<typed, salary_text, estimate, description, work_type, jobs, raw_job>>

CallWorkTypeDistribution ==
    /\ pc = "input"
    /\ query' = <<"get_work_type_distribution">>
    /\ result' = get_work_type_distribution(jobs)
    /\ pc' = "done"
    /\ UNCHANGED <<typed, salary_text, estimate, description, work_type, jobs, raw_job>>

CallSalaryInsights ==
    /\ pc = "input"
    /\ query' = <<"get_salary_insights">>
    /\ result' = get_salary_insights(jobs)
    /\ pc' = "done"
    /\ UNCHANGED <<typed, salary_text, estimate, description, work_type, jobs, raw_job>>

CallFilter(wt) ==
    /\ pc = "input"
    /\ query' = <<"filter_jobs_by_work_type", wt>>
    /\ result' = filter_jobs_by_work_type(jobs, wt)
    /\ pc' = "done"
    /\ UNCHANGED <<typed, salary_text, estimate, description, work_type, jobs, raw_job>>

Next ==
    \/ \E job \in Listings : AddJob(job)
    \/ CallSkillTrends
    \/ CallLocationTrends
    \/ CallWorkTypeDistribution
    \/ CallSalaryInsights
    \/ \E wt \in FilterArguments : CallFilter(wt)

Spec == Init /\ [][Next]_vars

(***************************************************************************)
(* Properties of the aggregate queries                                     *)
(***************************************************************************)
Ran(name) == pc = "done" /\ query[1] = name

RECURSIVE SumOver(_, _)
\* the sum of the counts of a mapping
SumOver(f, keys) ==
    IF keys = {} THEN 0
    ELSE LET k == CHOOSE x \in keys : TRUE IN f[k] + SumOver(f, keys \ {k})

\* C7: the counts of the mapping get_work_type_distribution returns sum to
\* the number of listings, those classified Unknown included.
C7_CountsSumToSize ==
    (Ran("get_work_type_distribution") /\ result.kind = "return")
    => SumOver(result.value, DOMAIN result.value) = Len(jobs)

\* three listings, two of them with no work-type signal, counted under
\* Unknown
C7_Witness ==
    /\ Ran("get_work_type_distribution")
    /\ result.kind = "return"
    /\ Len(jobs) = 3
    /\ "Unknown" \in DOMAIN result.value
    /\ result.value["Unknown"] = 2
    /\ Cardinality(DOMAIN result.value) = 2

\* the work type of a listing, as detect_work_type gives it
TypeOfListing(job) == detect_work_type(Get(job, "description", Str("")))

\* C8: the filter with 'All' returns the listings unchanged; with another
\* work type X it returns, in their original order, exactly the listings
\* whose detect_work_type result is X, and filtering that result again with
\* X gives the same result.
C8_Filter ==
    (Ran("filter_jobs_by_work_type") /\ result.kind = "return")
    => /\ query[2] = "All" => result.value = jobs
       /\ query[2] # "All" =>
             /\ result.value =
                   SelectSeq(jobs, LAMBDA job : TypeOfListing(job) = Return(query[2]))
             /\ filter_jobs_by_work_type(result.value, query[2]) = result
             /\ \A i \in 1..Len(result.value) :
                   TypeOfListing(result.value[i]) = Return(query[2])

\* a proper, non-empty selection: some listings kept, some dropped
C8_Witness ==
    /\ Ran("filter_jobs_by_work_type")
    /\ result.kind = "return"
    /\ query[2] = "Hybrid"
    /\ Len(jobs) = 3
    /\ Len(result.value) = 2
    /\ result.value[1] = jobs[1]
    /\ result.value[2] = jobs[3]

EmptySalaryRange(job) == job.salary_range = Str("")

\* what the fallback key 'salary' of a listing parses to
FallbackAverage(job) ==
    IF job.salary.type = "missing" THEN 0
    ELSE analyze_salary_range(Str(PyStr(job.salary))).value.average_salary

Processable(name, job) ==
    CASE name = "get_skill_trends" ->
            Get(job, "description", Str("")).type = "str"
      [] name = "get_work_type_distribution" ->
            Get(job, "description", Str("")).type \in {"str", "NoneType"}
      [] name = "get_location_trends" ->
            Get(job, "location", None).type \in {"str", "NoneType"}
      [] OTHER -> TRUE

Aggregate(name, js) ==
    CASE name = "get_skill_trends" -> get_skill_trends(js)
      [] name = "get_location_trends" -> get_location_trends(js)
      [] name = "get_work_type_distribution" -> get_work_type_distribution(js)
      [] name = "get_salary_insights" -> get_salary_insights(js)

AggregateQueries ==
    {"get_skill_trends", "get_location_trends", "get_work_type_distribution",
     "get_salary_insights"}

\* C10: no aggregate query aborts because of a faulty listing: it returns
\* the result computed from the listings it can process.
C10_NoAbort ==
    (pc = "done" /\ query[1] \in AggregateQueries)
    => /\ result.kind = "return"
       /\ result = Aggregate(query[1],
                      SelectSeq(jobs, LAMBDA job : Processable(query[1], job)))

(***************************************************************************)
(* BaseScraper._normalize_job_data (src/src/scraper/base_scraper.py)       *)
(***************************************************************************)
\* the second argument of each raw_job.get: now is datetime.now().isoformat()
\* and name is self.__class__.__name__, both evaluated at the call
DefaultOf(field, now, name) ==
    CASE field = "skills" -> EmptyList
      [] field = "posted_date" -> Str(now)
      [] field = "source" -> Str(name)
      [] OTHER -> Str("")

\* the mapping with "raw_job.get(key) or default" in place of
\* raw_job.get(key, default)
_normalize_job_data_or_default(raw, now, name) ==
    Return([field \in NormalizedFields |->
               IF Truthy(Get(raw, field, None)) THEN raw[field]
               ELSE DefaultOf(field, now, name)])

\* lines 43-62
_normalize_job_data(raw, now, name) ==
    Return([field \in NormalizedFields |->
               Get(raw, field, DefaultOf(field, now, name))])

(***************************************************************************)
(* Driver of _normalize_job_data: a scraper fills a raw record key by key, *)
(* normalizes it, and the listing may be normalized once more later.       *)
(***************************************************************************)
MaxKeys == 3

RawValues == {Str("Acme"), Str(""), None, PyInt(5)}

\* values of datetime.now().isoformat() at two different calls
Clock == {"2024-05-01T09:00:00", "2024-05-02T09:00:00"}

\* the concrete scraper classes
ScraperNames == {"LinkedInScraper", "IndeedScraper"}

NormalizeInit ==
    /\ pc = "input"
    /\ typed = 0
    /\ salary_text = Str("")
    /\ estimate = NotCalled
    /\ description = Str("")
    /\ work_type = NotCalled
    /\ jobs = <<>>
    /\ query = <<>>
    /\ result = NotCalled
    /\ raw_job = EmptyRecord

SetKey(key, value) ==
    /\ pc = "input"
    /\ typed < MaxKeys
    /\ raw_job[key] = Missing
    /\ typed' = typed + 1
    /\ raw_job' = [raw_job EXCEPT ![key] = value]
    /\ UNCHANGED <<pc, salary_text, estimate, description, work_type, jobs, query, result>>

CallNormalize(now, name) ==
    /\ pc = "input"
    /\ query' = <<"_normalize_job_data", now, name>>
    /\ result' = _normalize_job_data(raw_job, now, name)
    /\ pc' = "done"
    /\ UNCHANGED <<typed, salary_text, estimate, description, work_type, jobs, raw_job>>

\* the listing just produced is handed to _normalize_job_data again
CallNormalizeAgain(now, name) ==
    /\ pc = "done"
    /\ result.kind = "return"
    /\ raw_job' = [k \in RawKeys |->
                     IF k \in NormalizedFields THEN result.value[k] ELSE Missing]
    /\ query' = <<"_normalize_job_data", now, name>>
    /\ result' = _normalize_job_data(raw_job', now, name)
    /\ pc' = "again"
    /\ UNCHANGED <<typed, salary_text, estimate, description, work_type, jobs>>

NormalizeNext ==
    \/ \E key \in RawKeys, value \in RawValues : SetKey(key, value)
    \/ \E now \in Clock, name \in ScraperNames : CallNormalize(now, name)
    \/ \E now \in Clock, name \in ScraperNames : CallNormalizeAgain(now, name)

NormalizeSpec == NormalizeInit /\ [][NormalizeNext]_vars

(***************************************************************************)
(* Properties of _normalize_job_data                                       *)
(***************************************************************************)
Normalized == pc \in {"done", "again"} /\ query[1] = "_normalize_job_data"

\* C11: _normalize_job_data never fails on a raw mapping and returns a
\* listing with exactly the nine fields; a key the raw record supplies keeps
\* its value, a missing key takes its default (empty string, empty list, the
\* normalization time, the scraper's name), and normalizing a normalized
\* listing returns it unchanged.
C11_Normalize ==
    Normalized =>
        /\ result.kind = "return"
        /\ DOMAIN result.value = NormalizedFields
        /\ \A field \in NormalizedFields :
              /\ result.value[field] # Missing
              /\ raw_job[field] # Missing => result.value[field] = raw_job[field]
              /\ raw_job[field] = Missing =>
                    result.value[field] =
                        (CASE field = "skills" -> EmptyList
                           [] field = "posted_date" -> Str(query[2])
                           [] field = "source" -> Str(query[3])
                           [] OTHER -> Str(""))
        /\ pc = "again" =>
              \A field \in NormalizedFields : result.value[field] = raw_job[field]

\* a record with a None company and no posted_date was normalized, and the
\* listing came back unchanged from a later normalization by another scraper
C11_Witness ==
    /\ pc = "again"
    /\ query[1] = "_normalize_job_data"
    /\ result.kind = "return"
    /\ result.value["company"] = None
    /\ result.value["title"] = Str("")
    /\ result.value["skills"] = EmptyList
    /\ result.value["posted_date"] # Str(query[2])
    /\ result.value["source"] # Str(query[3])

(***************************************************************************)
(* Driver of extract_skills: a text is typed phrase by phrase, then the    *)
(* function is called once.                                                *)
(***************************************************************************)
MaxPhrases == 4

TextPhrases ==
    {"I use Python and ", "Machine ", "Learning ", "daily", "Data ",
     "analysis, ", "SQL ", "node.js ", "javascript "}

SkillInit ==
    /\ pc = "input"
    /\ typed = 0
    /\ salary_text = Str("")
    /\ estimate = NotCalled
    /\ description = Str("")
    /\ work_type = NotCalled
    /\ jobs = <<>>
    /\ query = <<>>
    /\ result = NotCalled
    /\ raw_job = EmptyRecord

TypeText(f) ==
    /\ pc = "input"
    /\ typed < MaxPhrases
    /\ typed' = typed + 1
    /\ description' = Str(description.s \o f)
    /\ UNCHANGED <<pc, salary_text, estimate, work_type, jobs, query, result, raw_job>>

CallExtractSkills ==
    /\ pc = "input"
    /\ query' = <<"extract_skills">>
    /\ result' = extract_skills(description)
    /\ pc' = "done"
    /\ UNCHANGED <<typed, salary_text, estimate, description, work_type, jobs, raw_job>>

SkillNext ==
    \/ \E f \in TextPhrases : TypeText(f)
    \/ CallExtractSkills

SkillSpec == SkillInit /\ [][SkillNext]_vars

(***************************************************************************)
(* Properties of extract_skills                                            *)
(***************************************************************************)
\* the vocabulary entries that are a token of doc or two adjacent tokens of
\* doc joined by a blank
EntriesIn(doc) ==
    {skill \in common_skills :
        \/ \E i \in 1..Len(doc) : doc[i] = skill
        \/ \E i \in 1..(Len(doc) - 1) : doc[i] \o " " \o doc[i + 1] = skill}

\* C12: extract_skills returns exactly the vocabulary entries that equal a
\* token of the lower-cased text or the blank-joined pair of two adjacent
\* tokens, hence a subset of the vocabulary; for "I use Python and Machine
\* Learning daily" it returns {python, machine learning}.
C12_ExtractSkills ==
    (pc = "done" /\ query[1] = "extract_skills") =>
        /\ result.kind = "return"
        /\ result.value = EntriesIn(Tokenize(Lower(description.s)))
        /\ result.value \subseteq common_skills
        /\ description.s = "I use Python and Machine Learning daily"
              => result.value = {"python", "machine learning"}

\* the sentence of the example went through extract_skills
C12_Witness ==
    /\ pc = "done"
    /\ query = <<"extract_skills">>
    /\ description.s = "I use Python and Machine Learning daily"
    /\ Tokenize(Lower(description.s)) =
          <<"i", "use", "python", "and", "machine", "learning", "daily">>
    /\ result = Return({"python", "machine learning"})

(***************************************************************************)
(* Properties of the multipliers of analyze_salary_range                   *)
(***************************************************************************)
\* the period markers and their multipliers, in the order of the search
PeriodOrder ==
    << <<"/hr", 2080>>, <<"per hour", 2080>>, <<"hourly", 2080>>,
       <<"/day", 260>>, <<"per day", 260>>, <<"daily", 260>>,
       <<"/wk", 52>>, <<"per week", 52>>, <<"weekly", 52>>,
       <<"/mo", 12>>, <<"per month", 12>>, <<"monthly", 12>> >>

\* the first period marker of PeriodOrder present in a cleaned text, 0 if none
FirstPeriod(cleaned) ==
    LET present == {i \in 1..Len(PeriodOrder) : Contains(cleaned, PeriodOrder[i][1])}
    IN IF present = {} THEN 0
       ELSE CHOOSE i \in present : \A j \in present : i <= j

PeriodMultiplier(cleaned) ==
    IF FirstPeriod(cleaned) = 0 THEN 1 ELSE PeriodOrder[FirstPeriod(cleaned)][2]

\* a cleaned text with its first period marker taken out
WithoutPeriod(cleaned) ==
    IF FirstPeriod(cleaned) = 0 THEN cleaned
    ELSE StrReplace(cleaned, PeriodOrder[FirstPeriod(cleaned)][1], "")

\* the numbers read in a text, each multiplied by magnitude and by period
Scaled(text, magnitude, period) ==
    LET raw == FindAll(text)
    IN [i \in 1..Len(raw) |-> Times(Times(Float(raw[i]), magnitude), period)]

\* the magnitude multiplier and the text left once its marker is taken out
MagnitudeOf(rest) ==
    LET g == FirstMatch(multipliers, rest)
    IN IF g = 0 THEN [mult |-> 1, text |-> rest]
       ELSE [mult |-> multipliers[g].mult,
             text |-> StrReplace(rest, multipliers[g].key, "")]

\* C13: exactly one period multiplier is applied, that of the first marker
\* present in the order /hr, per hour, hourly, /day, per day, daily, /wk,
\* per week, weekly, /mo, per month, monthly, or 1; the marker is removed
\* before the magnitude marker is searched and before the numbers are read,
\* so a k or m inside the matched marker triggers no magnitude multiplier;
\* "45/hr" gives 84240, 102960, 93600.
C13_PeriodMultiplier ==
    /\ \A i \in 1..Len(PeriodOrder) :
          /\ time_multipliers[i].key = PeriodOrder[i][1]
          /\ time_multipliers[i].mult = PeriodOrder[i][2]
    /\ Len(time_multipliers) = Len(PeriodOrder)
    /\ Analyzed =>
          LET cleaned == CleanSalary(salary_text.s)
              period == PeriodMultiplier(cleaned)
              rest == WithoutPeriod(cleaned)
              magnitude == MagnitudeOf(rest)
          IN /\ estimate.value =
                   EstimateOf(SelectSeq(Scaled(magnitude.text, magnitude.mult, period),
                                        InBand))
             /\ NoMagnitudeMarker(rest) =>
                   estimate.value = EstimateOf(SelectSeq(Scaled(rest, 1, period), InBand))
             /\ salary_text.s = "45/hr" =>
                   estimate.value = [min_salary |-> 8424000, max_salary |-> 10296000,
                                     average_salary |-> 9360000]

\* "$50,000 per month": the m of the marker is gone before the magnitude
\* search, and 50000 * 12 = 600000 is estimated
C13_Witness ==
    /\ Analyzed
    /\ LET cleaned == CleanSalary(salary_text.s)
       IN /\ FirstPeriod(cleaned) = 11
          /\ Contains(cleaned, "m")
          /\ NoMagnitudeMarker(WithoutPeriod(cleaned))
    /\ estimate.value = [min_salary |-> 54000000, max_salary |-> 66000000,
                         average_salary |-> 60000000]

\* the salary text as it is written: lower-cased, without the currency sign
\* and the thousands separators, the matched period marker taken out
Written(text) ==
    WithoutPeriod(StrReplace(StrReplace(Strip(Lower(text)), "$", ""), ",", ""))

\* C14: every number read in the text is multiplied by the magnitude of the
\* first of k (1000), m (1000000), thousand (1000), million (1000000), yr,
\* year, annual (1) that occurs in the salary text, by 1 when none occurs; a
\* text written with the word 'thousand' has its numbers multiplied by 1000,
\* one written with 'million' by 1000000.
C14_MagnitudeMultiplier ==
    Analyzed =>
        LET cleaned == CleanSalary(salary_text.s)
            period == PeriodMultiplier(cleaned)
            rest == WithoutPeriod(cleaned)
            g == FirstMatch(multipliers, Written(salary_text.s))
            magnitude == IF g = 0 THEN 1 ELSE multipliers[g].mult
            digits == IF g = 0 THEN rest ELSE StrReplace(rest, multipliers[g].key, "")
        IN estimate.value =
              EstimateOf(SelectSeq(Scaled(digits, magnitude, period), InBand))

(***************************************************************************)
(* Properties of the scores of detect_work_type                            *)
(***************************************************************************)
\* the keywords of a category that occur in the description
Occurring(desc, wt) ==
    {i \in 1..Len(KeywordsOf(wt)) : Contains(desc, KeywordsOf(wt)[i])}

\* the keywords of a category that occur after "not " or after "no "
Negated(desc, wt) ==
    {i \in 1..Len(KeywordsOf(wt)) :
        \/ Contains(desc, "not " \o KeywordsOf(wt)[i])
        \/ Contains(desc, "no " \o KeywordsOf(wt)[i])}

\* C15: the score of a category is 2 for each of its keywords that occurs
\* when the description holds a context marker ('job type:', 'work
\* arrangement:', 'location:', 'position type:'), 1 for each without such a
\* marker, minus 1 for each keyword whose negated form 'not <keyword>' or
\* 'no <keyword>' occurs, whatever the positive match did and never doubled.
C15_Score ==
    pc = "done" =>
        LET desc == Lower(description.s)
            weight == IF \E c \in {"job type:", "work arrangement:", "location:",
                                   "position type:"} : Contains(desc, c)
                      THEN 2 ELSE 1
            claimed == <<weight * Cardinality(Occurring(desc, "On-site"))
                            - Cardinality(Negated(desc, "On-site")),
                         weight * Cardinality(Occurring(desc, "Remote"))
                            - Cardinality(Negated(desc, "Remote")),
                         weight * Cardinality(Occurring(desc, "Hybrid"))
                            - Cardinality(Negated(desc, "Hybrid"))>>
            scores == Matches(desc)
        IN /\ scores["On-site"] = claimed[1]
           /\ scores["Remote"] = claimed[2]
           /\ scores["Hybrid"] = claimed[3]
           /\ work_type = Return(Decide(scores))

\* a negated keyword under a context marker: 2 - 1 = 1, and the category wins
C15_Witness ==
    /\ pc = "done"
    /\ LET desc == Lower(description.s)
       IN /\ HasContext(desc)
          /\ Negated(desc, "Remote") = {1}
          /\ Occurring(desc, "Remote") = {1}
          /\ Matches(desc)["Remote"] = 1
          /\ Occurring(desc, "Hybrid") = {}
          /\ Occurring(desc, "On-site") = {}
    /\ work_type = Return("Remote")

\* every occurrence of the keyword stands after "not " or after "no "
OnlyNegated(desc, keyword) ==
    /\ Contains(desc, keyword)
    /\ \A i \in 1..(Len(desc) - Len(keyword) + 1) :
          SubSeq(desc, i, i + Len(keyword) - 1) = keyword =>
              \/ i > 4 /\ SubSeq(desc, i - 4, i - 1) = "not "
              \/ i > 3 /\ SubSeq(desc, i - 3, i - 1) = "no "

\* C17: no category score is negative: the negated form holds the keyword,
\* so each keyword contributes 0, 1 or 2; a keyword that occurs only in
\* negated form contributes 0 without a context marker and 1 with one.
C17_NoNegativeScore ==
    pc = "done" =>
        LET desc == Lower(description.s)
            context == HasContext(desc)
        IN \A n \in 1..Len(work_type_keywords) :
              LET keywords == work_type_keywords[n].keywords
              IN /\ SumScores(desc, keywords, 1) >= 0
                 /\ \A i \in 1..Len(keywords) :
                       /\ KeywordScore(desc, keywords[i]) \in {0, 1, 2}
                       /\ Contains(desc, "not " \o keywords[i])
                             => Contains(desc, keywords[i])
                       /\ Contains(desc, "no " \o keywords[i])
                             => Contains(desc, keywords[i])
                       /\ OnlyNegated(desc, keywords[i]) =>
                             KeywordScore(desc, keywords[i]) =
                                 (IF context THEN 1 ELSE 0)

\* "no wfh" under a context marker: the keyword occurs only negated and still
\* gives its category the score 1
C17_Witness ==
    /\ pc = "done"
    /\ LET desc == Lower(description.s)
       IN /\ HasContext(desc)
          /\ OnlyNegated(desc, "wfh")
          /\ Contains(desc, "no wfh")
          /\ KeywordScore(desc, "wfh") = 1
          /\ Matches(desc)["Remote"] = 1
    /\ work_type = Return("Remote")

(***************************************************************************)
(* Properties of the statistics of get_salary_insights                     *)
(***************************************************************************)
\* the text of a listing that is parsed: salary_range, or the 'salary' field
\* when salary_range is absent or empty
SalarySource(job) ==
    IF Truthy(Get(job, "salary_range", None)) THEN job.salary_range
    ELSE IF job.salary.type # "missing" THEN Str(PyStr(job.salary))
    ELSE None

RECURSIVE PositiveAverages(_)
\* the average_salary of each parsed estimate that is greater than 0
PositiveAverages(js) ==
    IF js = <<>> THEN <<>>
    ELSE (IF analyze_salary_range(SalarySource(Head(js))).value.average_salary > 0
          THEN <<analyze_salary_range(SalarySource(Head(js))).value.average_salary>>
          ELSE <<>>)
         \o PositiveAverages(Tail(js))

\* m is the element at index floor(count / 2) of the values in ascending
\* order: the upper of the two middle elements for an even count
IsUpperMedian(m, values) ==
    /\ \E i \in 1..Len(values) : values[i] = m
    /\ Cardinality({i \in 1..Len(values) : values[i] < m}) <= Len(values) \div 2
    /\ Cardinality({i \in 1..Len(values) : values[i] <= m}) > Len(values) \div 2

\* min, max and median of the statistics are those of the values
OrderStatistics(stats, values) ==
    /\ \E i \in 1..Len(values) : values[i] = stats.min_salary
    /\ \A i \in 1..Len(values) : stats.min_salary <= values[i]
    /\ \E i \in 1..Len(values) : values[i] = stats.max_salary
    /\ \A i \in 1..Len(values) : values[i] <= stats.max_salary
    /\ IsUpperMedian(stats.median_salary, values)
    /\ stats.min_salary <= stats.median_salary
    /\ stats.median_salary <= stats.max_salary

PhraseFragments ==
    {"partially remote ", "remote optional ", "Mix of remote and office ",
     "Location: ", "not ", "hybrid ", "Remote ", "team "}

PhraseNext ==
    \/ \E f \in PhraseFragments : TypeDescription(f)
    \/ CallDetectWorkType

PhraseSpec == WorkInit /\ [][PhraseNext]_vars

\* the Hybrid keywords that hold the Remote keyword 'remote'
RemotePhrases == {"partially remote", "remote optional", "mix of remote and office"}

\* the listed keywords, of any category, that occur in the description
KeywordsIn(desc) ==
    UNION {{KeywordsOf(wt)[i] : i \in Occurring(desc, wt)} : wt \in WorkTypes}

\* C18: a description whose only keyword occurrences are one of the phrases
\* 'partially remote', 'remote optional', 'mix of remote and office' (and the
\* 'remote' inside it), with no negated form, with or without a context
\* marker, scores the same for Remote and Hybrid and is classified Remote.
C18_RemoteWinsPhrase ==
    pc = "done" =>
        LET desc == Lower(description.s)
            found == KeywordsIn(desc)
        IN (/\ Cardinality(found \cap RemotePhrases) = 1
            /\ found \subseteq RemotePhrases \cup {"remote"}
            /\ \A wt \in WorkTypes : Negated(desc, wt) = {})
           => /\ Matches(desc)["Remote"] = Matches(desc)["Hybrid"]
              /\ Matches(desc)["Remote"] = (IF HasContext(desc) THEN 2 ELSE 1)
              /\ Matches(desc)["On-site"] = 0
              /\ work_type = Return("Remote")

\* "location: mix of remote and office": Remote 2, Hybrid 2, result Remote
C18_Witness ==
    /\ pc = "done"
    /\ LET desc == Lower(description.s)
       IN /\ KeywordsIn(desc) = {"mix of remote and office", "remote"}
          /\ HasContext(desc)
          /\ \A wt \in WorkTypes : Negated(desc, wt) = {}
          /\ Matches(desc)["Hybrid"] = 2
          /\ Matches(desc)["Remote"] = 2
    /\ work_type = Return("Remote")

====
